---- MODULE Spec2Model ----
(***************************************************************************)
(* A model of the PDF ingestion / semantic search chat of this repository: *)
(*   src/src/ingest.py  process_pdf, the CLI and HTTP entrypoints, /health *)
(*   src/src/search.py  search_documents, format_context, search_and_answer*)
(*   src/src/chat.py    the interactive loop                               *)
(* Text is a sequence of one-character strings, so that strip(), lower(),  *)
(* the f-string of format_context and the text splitter are computed       *)
(* character by character.                                                 *)
(***************************************************************************)
EXTENDS Integers, Sequences, FiniteSets, TLC

VARIABLES
    ctext,      \* chunker: the page text handed to split_text
    cchunks,    \* chunker: the chunks split_text returned
    cpc,        \* chunker: "input" before the call, "done" after it
    fdocs,      \* format_context: its argument, a sequence of (doc, score)
    fcontext,   \* format_context: the string it returned
    fpc         \* format_context: "input" before the call, "done" after it

cvars == <<ctext, cchunks, cpc>>
fvars == <<fdocs, fcontext, fpc>>

\* The chunker and the formatter at rest, while the system runs.
ChunkIdle == /\ ctext = <<>>
             /\ cchunks = <<>>
             /\ cpc = "idle"

FormatIdle == /\ fdocs = <<>>
              /\ fcontext = <<>>
              /\ fpc = "idle"

(***************************************************************************)
(* Strings                                                                 *)
(***************************************************************************)
Min(S) == CHOOSE x \in S : \A y \in S : x <= y
Max(S) == CHOOSE x \in S : \A y \in S : x >= y

\* The characters str.strip() removes: those str.isspace() accepts.  A
\* character TLA+ has no escape for is written by its code point.
Whitespace ==
    {"\t", "\n", "U+000B", "\f", "\r", "U+001C", "U+001D", "U+001E", "U+001F",
     " ", "U+0085", "U+00A0", "U+1680", "U+2000", "U+2001", "U+2002",
     "U+2003", "U+2004", "U+2005", "U+2006", "U+2007", "U+2008", "U+2009",
     "U+200A", "U+2028", "U+2029", "U+202F", "U+205F", "U+3000"}

\* str.strip(): the text without its leading and trailing whitespace.
strip(s) ==
    LET keep == {i \in 1..Len(s) : s[i] \notin Whitespace}
    IN  IF keep = {} THEN <<>> ELSE SubSeq(s, Min(keep), Max(keep))

\* How many leading characters strip() removes.
lstrip_count(s) ==
    LET keep == {i \in 1..Len(s) : s[i] \notin Whitespace}
    IN  IF keep = {} THEN Len(s) ELSE Min(keep) - 1

(***************************************************************************)
(* The Chunker: RecursiveCharacterTextSplitter(chunk_size, chunk_overlap,  *)
(* length_function=len, separators=["\n\n", "\n", " ", ""]) as            *)
(* process_pdf configures it (keep_separator and strip_whitespace at their *)
(* defaults, True).  The source sets chunk_size=1000 and chunk_overlap=150;*)
(* the model keeps the algorithm and scales the two sizes down so that     *)
(* every text up to MaxTextLen characters can be enumerated.               *)
(* A piece is [s |-> its characters, o |-> its offset in the page text];   *)
(* the offset is bookkeeping of the model, the code handles the strings.   *)
(***************************************************************************)
chunk_size == 5
chunk_overlap == 2
MaxTextLen == 9

separators == << <<"\n", "\n">>, <<"\n">>, <<" ">>, <<>> >>

\* re.search(re.escape(sep), t): the first index where sep occurs from
\* index `from` on, 0 when it does not.
re_search(t, sep, from) ==
    LET hits == {j \in from..(Len(t) - Len(sep) + 1) :
                    SubSeq(t, j, j + Len(sep) - 1) = sep}
    IN  IF hits = {} THEN 0 ELSE Min(hits)

\* re.split(f"({sep})", text): the text between the non-overlapping matches,
\* leftmost first, with each match kept: [t0, sep, t1, sep, ..., tn].
RECURSIVE re_split(_, _, _)
re_split(p, sep, from) ==
    LET m == re_search(p.s, sep, from)
    IN  IF m = 0
        THEN << [s |-> SubSeq(p.s, from, Len(p.s)), o |-> p.o + from - 1] >>
        ELSE << [s |-> SubSeq(p.s, from, m - 1), o |-> p.o + from - 1],
                [s |-> sep, o |-> p.o + m - 1] >>
             \o re_split(p, sep, m + Len(sep))

\* _split_text_with_regex(text, separator, keep_separator=True): each
\* separator stays at the start of the piece that follows it; empty pieces
\* are dropped.  With the empty separator the pieces are the characters.
split_text_with_regex(p, separator) ==
    LET splits ==
            IF separator # <<>>
            THEN LET raw == re_split(p, separator, 1)
                 IN  << raw[1] >> \o
                     [j \in 1..((Len(raw) - 1) \div 2) |->
                        [s |-> raw[2 * j].s \o raw[2 * j + 1].s, o |-> raw[2 * j].o]]
            ELSE [i \in 1..Len(p.s) |-> [s |-> << p.s[i] >>, o |-> p.o + i - 1]]
    IN  SelectSeq(splits, LAMBDA x : x.s # <<>>)

\* "".join(pieces)
RECURSIVE concat(_)
concat(pieces) ==
    IF pieces = <<>> THEN <<>> ELSE Head(pieces).s \o concat(Tail(pieces))

\* _join_docs(docs, separator=""): the joined text, stripped; s = <<>> stands
\* for the None the code returns for an empty text.
join_docs(current_doc) ==
    LET text == concat(current_doc)
    IN  [s |-> strip(text),
         o |-> (IF current_doc = <<>> THEN 0 ELSE current_doc[1].o) + lstrip_count(text)]

\* The `while` of _merge_splits: drop pieces from the front of current_doc
\* while it is longer than chunk_overlap, or too long to take the next piece.
\* (The merge separator is "" because keep_separator is True: its length, 0,
\* is left out of the sums.)
RECURSIVE pop_front_size_only(_, _, _)
pop_front_size_only(current_doc, total, len) ==
    IF total + len > chunk_size /\ total > 0
    THEN pop_front_size_only(Tail(current_doc), total - Len(current_doc[1].s), len)
    ELSE [current_doc |-> current_doc, total |-> total]

RECURSIVE pop_front(_, _, _)
pop_front(current_doc, total, len) ==
    IF total > chunk_overlap \/ (total + len > chunk_size /\ total > 0)
    THEN pop_front(Tail(current_doc), total - Len(current_doc[1].s), len)
    ELSE [current_doc |-> current_doc, total |-> total]

\* The `for d in splits` loop of _merge_splits.
RECURSIVE merge_loop(_, _, _, _, _)
merge_loop(splits, i, current_doc, total, docs) ==
    IF i > Len(splits)
    THEN LET doc == join_docs(current_doc)
         IN  IF doc.s # <<>> THEN Append(docs, doc) ELSE docs
    ELSE LET d == splits[i]
             len == Len(d.s)
         IN  IF total + len > chunk_size /\ Len(current_doc) > 0
             THEN LET doc == join_docs(current_doc)
                      docs1 == IF doc.s # <<>> THEN Append(docs, doc) ELSE docs
                      kept == pop_front(current_doc, total, len)
                  IN  merge_loop(splits, i + 1, Append(kept.current_doc, d),
                                 kept.total + len, docs1)
             ELSE merge_loop(splits, i + 1, Append(current_doc, d), total + len, docs)

merge_splits(splits) == merge_loop(splits, 1, <<>>, 0, <<>>)

\* RecursiveCharacterTextSplitter._split_text(text, separators)
RECURSIVE split_text_rec(_, _), split_loop(_, _, _, _, _)
split_text_rec(p, seps) ==
    LET hits == {i \in 1..Len(seps) : seps[i] = <<>> \/ re_search(p.s, seps[i], 1) # 0}
        i == IF hits = {} THEN Len(seps) ELSE Min(hits)
        separator == seps[i]
        new_separators == IF hits = {} \/ separator = <<>>
                          THEN <<>> ELSE SubSeq(seps, i + 1, Len(seps))
    IN  split_loop(split_text_with_regex(p, separator), 1, <<>>, <<>>, new_separators)

split_loop(splits, i, good_splits, final_chunks, new_separators) ==
    IF i > Len(splits)
    THEN IF good_splits # <<>>
         THEN final_chunks \o merge_splits(good_splits) ELSE final_chunks
    ELSE LET s == splits[i]
         IN  IF Len(s.s) < chunk_size
             THEN split_loop(splits, i + 1, Append(good_splits, s), final_chunks,
                             new_separators)
             ELSE LET merged == IF good_splits # <<>>
                                THEN final_chunks \o merge_splits(good_splits)
                                ELSE final_chunks
                      other == IF new_separators = <<>>
                               THEN << s >> ELSE split_text_rec(s, new_separators)
                  IN  split_loop(splits, i + 1, <<>>, merged \o other, new_separators)

\* text_splitter.split_text(text) for one page.
split_text(text) == split_text_rec([s |-> text, o |-> 0], separators)

(***************************************************************************)
(* search.py: format_context                                               *)
(***************************************************************************)
\* "Nenhum contexto encontrado."
NoContext == <<"N","e","n","h","u","m"," ","c","o","n","t","e","x","t","o"," ",
               "e","n","c","o","n","t","r","a","d","o",".">>

Digits == <<"0", "1", "2", "3", "4", "5", "6", "7", "8", "9">>

\* str(n) for n >= 0, as the f-string renders {i}.
RECURSIVE str_int(_)
str_int(n) ==
    IF n < 10 THEN << Digits[n + 1] >>
    ELSE str_int(n \div 10) \o << Digits[(n % 10) + 1] >>

\* sep.join(parts)
RECURSIVE str_join(_, _)
str_join(sep, parts) ==
    IF parts = <<>> THEN <<>>
    ELSE IF Len(parts) = 1 THEN parts[1]
    ELSE parts[1] \o sep \o str_join(sep, Tail(parts))

\* The same with enumerate(documents) counting from 0 (the default start).
format_context_from_zero(documents) ==
    IF documents = <<>> THEN NoContext
    ELSE str_join(<<"\n", "\n">>,
                  [i \in 1..Len(documents) |->
                      <<"[">> \o str_int(i - 1) \o <<"]", " ">>
                      \o documents[i][1].page_content])

\* format_context(documents): documents is a sequence of (doc, score).
format_context(documents) ==
    IF documents = <<>> THEN NoContext
    ELSE str_join(<<"\n", "\n">>,
                  [i \in 1..Len(documents) |->
                      <<"[">> \o str_int(i) \o <<"]", " ">>
                      \o documents[i][1].page_content])

(***************************************************************************)
(* Configuration: the module-level globals ingest.py and search.py read    *)
(* from the environment at import.  A key is modelled by its truth value   *)
(* (`if not OPENAI_API_KEY`).                                              *)
(***************************************************************************)
Configs ==
    { [LLM_PROVIDER |-> "openai", OPENAI_API_KEY |-> TRUE,  GOOGLE_API_KEY |-> FALSE],
      [LLM_PROVIDER |-> "openai", OPENAI_API_KEY |-> FALSE, GOOGLE_API_KEY |-> TRUE],
      [LLM_PROVIDER |-> "google", OPENAI_API_KEY |-> FALSE, GOOGLE_API_KEY |-> TRUE],
      [LLM_PROVIDER |-> "google", OPENAI_API_KEY |-> TRUE,  GOOGLE_API_KEY |-> FALSE],
      [LLM_PROVIDER |-> "azure",  OPENAI_API_KEY |-> TRUE,  GOOGLE_API_KEY |-> TRUE] }

\* A call either returns a value or raises; db is the Vector Store after it.
Return(v, d) == [ok |-> TRUE, val |-> v, err |-> "", db |-> d]
Raise(e, d) == [ok |-> FALSE, val |-> <<>>, err |-> e, db |-> d]

\* ingest.py get_embeddings()
ingest_get_embeddings(c, d) ==
    IF c.LLM_PROVIDER = "openai"
    THEN IF ~c.OPENAI_API_KEY
         THEN Raise("OPENAI_API_KEY não configurada", d)
         ELSE Return("OpenAIEmbeddings", d)
    ELSE IF c.LLM_PROVIDER = "google"
    THEN IF ~c.GOOGLE_API_KEY
         THEN Raise("GOOGLE_API_KEY não configurada", d)
         ELSE Return("GoogleGenerativeAIEmbeddings", d)
    ELSE Raise("Provedor não suportado", d)

\* search.py get_embeddings()
search_get_embeddings(c, d) ==
    IF c.LLM_PROVIDER = "openai"
    THEN IF ~c.OPENAI_API_KEY
         THEN Raise("OPENAI_API_KEY não configurada", d)
         ELSE Return("OpenAIEmbeddings", d)
    ELSE IF c.LLM_PROVIDER = "google"
    THEN IF ~c.GOOGLE_API_KEY
         THEN Raise("GOOGLE_API_KEY não configurada", d)
         ELSE Return("GoogleGenerativeAIEmbeddings", d)
    ELSE Raise("Provedor não suportado", d)

\* search.py get_llm(); ctor_ok: the chat model's constructor succeeds.
get_llm(c, ctor_ok, d) ==
    IF c.LLM_PROVIDER = "openai"
    THEN IF ~c.OPENAI_API_KEY
         THEN Raise("OPENAI_API_KEY não configurada", d)
         ELSE IF ctor_ok THEN Return("ChatOpenAI", d) ELSE Raise("ValidationError", d)
    ELSE IF c.LLM_PROVIDER = "google"
    THEN IF ~c.GOOGLE_API_KEY
         THEN Raise("GOOGLE_API_KEY não configurada", d)
         ELSE IF ctor_ok THEN Return("ChatGoogleGenerativeAI", d)
              ELSE Raise("ValidationError", d)
    ELSE Raise("Provedor não suportado", d)

(***************************************************************************)
(* The Vector Store.  d = [collection |-> the schema objects and the       *)
(* collection "pdf_documents" exist, records |-> its Stored Records in     *)
(* insertion order].                                                       *)
(* PGVector(embeddings, connection, collection_name="pdf_documents",       *)
(* pre_delete_collection=False): the langchain_postgres constructor        *)
(* connects and, when they are missing, creates the vector extension, its  *)
(* tables and the collection; with pre_delete_collection=True it would     *)
(* first delete the collection and its records.  up: the database answers. *)
(***************************************************************************)
PGVector_pre_delete(up, d) ==
    IF ~up THEN Raise("OperationalError", d)
    ELSE Return("PGVector", [collection |-> TRUE, records |-> <<>>])

PGVector(up, d) ==
    IF ~up THEN Raise("OperationalError", d)
    ELSE Return("PGVector", [d EXCEPT !.collection = TRUE])

\* ingest.py get_vector_store(): the engine connection, then the fallback
\* to the connection string when the first constructor raises.
ingest_get_vector_store(c, up1, up2, d) ==
    LET embeddings == ingest_get_embeddings(c, d)
    IN  IF ~embeddings.ok THEN embeddings
        ELSE LET first == PGVector(up1, d)
             IN  IF first.ok THEN first ELSE PGVector(up2, first.db)

\* search.py get_vector_store()
search_get_vector_store(c, up, d) ==
    LET embeddings == search_get_embeddings(c, d)
    IN  IF ~embeddings.ok THEN embeddings ELSE PGVector(up, d)

\* The same adding only the chunks whose text is not stored yet.
add_documents_dedup(chunks, fail, d) ==
    IF fail = "embed" THEN Raise("ProviderUnavailable", d)
    ELSE IF fail = "insert" THEN Raise("OperationalError", d)
    ELSE LET fresh == SelectSeq(chunks, LAMBDA ch :
                          \A i \in 1..Len(d.records) :
                              d.records[i].page_content # ch.page_content)
         IN  Return(Len(chunks), [d EXCEPT !.records = @ \o fresh])

\* vector_store.add_documents(chunks): the chunks are embedded, then
\* inserted in one transaction under fresh ids; fail names the step that
\* raises ("none": no step does).
add_documents(chunks, fail, d) ==
    IF fail = "embed" THEN Raise("ProviderUnavailable", d)
    ELSE IF fail = "insert" THEN Raise("OperationalError", d)
    ELSE Return(Len(chunks), [d EXCEPT !.records = @ \o chunks])

\* k of search_documents(question, k=10)
k == 10

\* vector_store.similarity_search_with_score(query, k): the query is
\* embedded, then the k nearest records are read, nearest first.  The
\* ranking comes from the embedding provider; the model ranks the records
\* in insertion order and gives the rank as the distance.  fail names the
\* step that raises.
similarity_search_with_score(query, kk, fail, d) ==
    IF fail = "embed" THEN Raise("ProviderUnavailable", d)
    ELSE IF fail = "query" THEN Raise("OperationalError", d)
    ELSE LET n == IF Len(d.records) < kk THEN Len(d.records) ELSE kk
         IN  Return([i \in 1..n |-> <<d.records[i], i>>], d)

\* What stops a call.  fx.fail names the step that raises an Exception
\* ("none": no step does).  fx.sigint names where the call is when the user
\* presses Ctrl+C ("none": they do not); a KeyboardInterrupt is no
\* Exception, so no `except Exception` of search.py or chat.py catches it:
\*   "before"    chat.py, between input() and the call of the turn
\*   "connect"   in get_vector_store(), the store not built yet
\*   "connected" the store built: in its search, or in the lines after it
\*   "searched"  search_documents returned: lines 149-156, get_llm() running
\*   "llm_built" get_llm() returned: lines 159-165, chain.invoke not entered
\*   "invoke"    chain.invoke running, or returned (lines 165-171)
\*   "after"     chat.py, the call of the turn returned (lines 74, 85),
\*               nothing of the turn's output written yet
\*   "printed"   chat.py, the turn's print has written its text (lines 65,
\*               69, 77, 85) and the try is not left yet
\* An interrupt whose place the call never reaches does not happen in it.
\* fx.handler: Ctrl+C arrives again while an except clause of main() runs.
\* fx.answer is the text the model answers when it is invoked.

\* search.py search_documents(query, k): any Exception degrades to [];
\* a KeyboardInterrupt leaves the call.
search_documents(query, kk, c, fx, d) ==
    IF fx.sigint = "connect" THEN Raise("KeyboardInterrupt", d)
    ELSE
    LET vector_store == search_get_vector_store(c, fx.fail # "connect", d)
    IN  IF fx.sigint = "connected" THEN Raise("KeyboardInterrupt", vector_store.db)
        ELSE IF ~vector_store.ok THEN Return(<<>>, vector_store.db)
        ELSE LET results == similarity_search_with_score(query, kk, fx.fail, vector_store.db)
             IN  IF results.ok THEN results ELSE Return(<<>>, results.db)

Refusal == "Não tenho informações necessárias para responder sua pergunta."
Fallback == "Erro interno. Tente novamente."

\* What the language model may answer.
Answers == {Refusal, "O faturamento foi de 10 milhões de reais."}

\* The outcome of one search_and_answer call.
Outcome(kind, value, searched, documents, llm_built, prompt, d) ==
    [kind |-> kind, value |-> value, searched |-> searched,
     documents |-> documents, llm_built |-> llm_built,
     llm_invoked |-> prompt # <<>>, prompt |-> prompt, db |-> d]

\* generate() without the `if not documents` return.
generate_no_guard(question, c, fx, documents) ==
    LET llm == get_llm(c, fx.fail # "llm_ctor", documents.db)
        prompt == << [contexto |-> format_context(documents.val), pergunta |-> question] >>
    IN  IF ~documents.ok
        THEN Outcome("raise", documents.err, FALSE, <<>>, FALSE, <<>>, documents.db)
        ELSE IF fx.sigint = "searched"
        THEN Outcome("raise", "KeyboardInterrupt", TRUE, documents.val, FALSE, <<>>, documents.db)
        ELSE IF ~llm.ok
        THEN Outcome("return", Fallback, TRUE, documents.val, FALSE, <<>>, documents.db)
        ELSE IF fx.sigint = "llm_built"
        THEN Outcome("raise", "KeyboardInterrupt", TRUE, documents.val, TRUE, <<>>, documents.db)
        ELSE IF fx.sigint = "invoke"
        THEN Outcome("raise", "KeyboardInterrupt", TRUE, documents.val, TRUE, prompt, documents.db)
        ELSE IF fx.fail = "llm_invoke"
        THEN Outcome("return", Fallback, TRUE, documents.val, TRUE, prompt, documents.db)
        ELSE Outcome("return", fx.answer, TRUE, documents.val, TRUE, prompt, documents.db)

\* generate() without the try/except around it: the exception leaves
\* search_and_answer.
generate_no_except(question, c, fx, documents) ==
    LET llm == get_llm(c, fx.fail # "llm_ctor", documents.db)
        prompt == << [contexto |-> format_context(documents.val), pergunta |-> question] >>
    IN  IF ~documents.ok
        THEN Outcome("raise", documents.err, FALSE, <<>>, FALSE, <<>>, documents.db)
        ELSE IF fx.sigint = "searched"
        THEN Outcome("raise", "KeyboardInterrupt", TRUE, documents.val, FALSE, <<>>, documents.db)
        ELSE IF documents.val = <<>>
        THEN Outcome("return", Refusal, TRUE, <<>>, FALSE, <<>>, documents.db)
        ELSE IF ~llm.ok
        THEN Outcome("raise", llm.err, TRUE, documents.val, FALSE, <<>>, documents.db)
        ELSE IF fx.sigint = "llm_built"
        THEN Outcome("raise", "KeyboardInterrupt", TRUE, documents.val, TRUE, <<>>, documents.db)
        ELSE IF fx.sigint = "invoke"
        THEN Outcome("raise", "KeyboardInterrupt", TRUE, documents.val, TRUE, prompt, documents.db)
        ELSE IF fx.fail = "llm_invoke"
        THEN Outcome("raise", "APIError", TRUE, documents.val, TRUE, prompt, documents.db)
        ELSE Outcome("return", fx.answer, TRUE, documents.val, TRUE, prompt, documents.db)

\* search_and_answer, lines 147-171, with what search_documents gave: its
\* KeyboardInterrupt passes through; the refusal when there are no
\* documents; otherwise the context, get_llm(), the chain
\* prompt | llm | StrOutputParser() and its invoke.  Any Exception of these
\* becomes the fallback string; a KeyboardInterrupt leaves the call with
\* what had happened when it arrived.
generate(question, c, fx, documents) ==
    LET llm == get_llm(c, fx.fail # "llm_ctor", documents.db)
        prompt == << [contexto |-> format_context(documents.val), pergunta |-> question] >>
    IN  IF ~documents.ok
        THEN Outcome("raise", documents.err, FALSE, <<>>, FALSE, <<>>, documents.db)
        ELSE IF fx.sigint = "searched"
        THEN Outcome("raise", "KeyboardInterrupt", TRUE, documents.val, FALSE, <<>>, documents.db)
        ELSE IF documents.val = <<>>
        THEN Outcome("return", Refusal, TRUE, <<>>, FALSE, <<>>, documents.db)
        ELSE IF ~llm.ok
        THEN Outcome("return", Fallback, TRUE, documents.val, FALSE, <<>>, documents.db)
        ELSE IF fx.sigint = "llm_built"
        THEN Outcome("raise", "KeyboardInterrupt", TRUE, documents.val, TRUE, <<>>, documents.db)
        ELSE IF fx.sigint = "invoke"
        THEN Outcome("raise", "KeyboardInterrupt", TRUE, documents.val, TRUE, prompt, documents.db)
        ELSE IF fx.fail = "llm_invoke"
        THEN Outcome("return", Fallback, TRUE, documents.val, TRUE, prompt, documents.db)
        ELSE Outcome("return", fx.answer, TRUE, documents.val, TRUE, prompt, documents.db)

\* search.py search_and_answer(question)
search_and_answer(question, c, fx, d) ==
    generate(question, c, fx, search_documents(question, k, c, fx, d))

(***************************************************************************)
(* chat.py                                                                 *)
(***************************************************************************)
\* The letters str.lower() changes, in ASCII and Latin-1 (the letters of the
\* Portuguese prompts), and what it changes them to.
UpperCase == <<"A","B","C","D","E","F","G","H","I","J","K","L","M",
               "N","O","P","Q","R","S","T","U","V","W","X","Y","Z",
               "À","Á","Â","Ã","Ä","Å","Æ","Ç","È","É","Ê","Ë","Ì",
               "Í","Î","Ï","Ð","Ñ","Ò","Ó","Ô","Õ","Ö","Ø","Ù","Ú",
               "Û","Ü","Ý","Þ">>
LowerCase == <<"a","b","c","d","e","f","g","h","i","j","k","l","m",
               "n","o","p","q","r","s","t","u","v","w","x","y","z",
               "à","á","â","ã","ä","å","æ","ç","è","é","ê","ë","ì",
               "í","î","ï","ð","ñ","ò","ó","ô","õ","ö","ø","ù","ú",
               "û","ü","ý","þ">>

\* str.lower() left out.
lower_missing(s) == s

\* str.lower()
lower(s) ==
    [i \in 1..Len(s) |->
        IF \E j \in 1..Len(UpperCase) : UpperCase[j] = s[i]
        THEN LowerCase[CHOOSE j \in 1..Len(UpperCase) : UpperCase[j] = s[i]]
        ELSE s[i]]

sair == <<"s", "a", "i", "r">>
quit == <<"q", "u", "i", "t">>
exit == <<"e", "x", "i", "t">>
help == <<"h", "e", "l", "p">>
status == <<"s", "t", "a", "t", "u", "s">>

\* chat.py check_system_status(): True when get_vector_store() returns,
\* False when it raises an Exception; a KeyboardInterrupt is not caught
\* and leaves the call, before the store is built ("connect") or after
\* (lines 35-45, "connected").
check_system_status(c, fx, d) ==
    IF fx.sigint = "connect"
    THEN [ok |-> FALSE, raised |-> TRUE, db |-> d]
    ELSE LET vector_store == search_get_vector_store(c, fx.fail # "connect", d)
         IN  IF fx.sigint = "connected"
             THEN [ok |-> FALSE, raised |-> TRUE, db |-> vector_store.db]
             ELSE [ok |-> vector_store.ok, raised |-> FALSE, db |-> vector_store.db]

\* One turn of the loop: what it did (kind), whether the loop goes on
\* (loop), the questions it passed to search_and_answer (calls), the
\* response it printed (printed) and the call's outcome (sa).
NoCall == Outcome("none", "", FALSE, <<>>, FALSE, <<>>, <<>>)
Turn(kind, loop, event, calls, printed, sa, d) ==
    [kind |-> kind, loop |-> loop, event |-> event, calls |-> calls,
     printed |-> printed, sa |-> [sa EXCEPT !.db = <<>>], db |-> d]

\* The handlers without `except Exception`: the exception leaves main().
on_exception_unhandled(exc) ==
    IF exc = "KeyboardInterrupt" THEN "break" ELSE "crash"

\* The `except KeyboardInterrupt: break` and `except Exception:` handlers
\* of the loop body: whether the loop goes on after exc was raised.
on_exception(exc) ==
    IF exc = "KeyboardInterrupt" THEN "break" ELSE "continue"

\* chat.py main(), lines 87-92: the turn raised exc, having printed
\* `printed` of a response.  The except clause decides whether the loop
\* goes on, unless Ctrl+C arrives while it runs: that KeyboardInterrupt
\* leaves main().
handle(exc, fx, event, calls, printed, sa, d) ==
    Turn(IF exc = "KeyboardInterrupt" \/ fx.handler THEN "interrupt" ELSE "error",
         IF fx.handler THEN "raise" ELSE on_exception(exc),
         event, calls, printed, sa, d)

\* chat.py main(), lines 82-92: the response is printed, or the exception
\* search_and_answer let through is handled, or the Ctrl+C that arrives
\* once it returned: before line 85 printed the response, or after.
answered(event, user_input, fx, response) ==
    IF response.kind = "raise"
    THEN handle(response.value, fx, event, << user_input >>, "", response, response.db)
    ELSE IF fx.sigint = "after"
    THEN handle("KeyboardInterrupt", fx, event, << user_input >>, "",
                response, response.db)
    ELSE IF fx.sigint = "printed"
    THEN handle("KeyboardInterrupt", fx, event, << user_input >>, response.value,
                response, response.db)
    ELSE Turn("answer", "continue", event, << user_input >>, response.value,
              response, response.db)

\* The body of `while True` in main().  event is what input() does: it
\* returns a line, raises EOFError (stdin is closed) or raises
\* KeyboardInterrupt.
loop_body(event, c, fx, d) ==
    IF event.type = "sigint"
    THEN handle("KeyboardInterrupt", fx, event, <<>>, "", NoCall, d)
    ELSE IF event.type = "eof"
    THEN handle("EOFError", fx, event, <<>>, "", NoCall, d)
    ELSE IF fx.sigint = "before"
    THEN handle("KeyboardInterrupt", fx, event, <<>>, "", NoCall, d)
    ELSE
    LET user_input == strip(event.text)
        command == \/ lower(user_input) \in {sair, quit, exit, help}
                   \/ user_input = <<>>
    IN  IF command /\ fx.sigint = "printed"
        THEN handle("KeyboardInterrupt", fx, event, <<>>, "", NoCall, d)
        ELSE IF lower(user_input) \in {sair, quit, exit}
        THEN Turn("exit", "break", event, <<>>, "", NoCall, d)
        ELSE IF lower(user_input) = help
        THEN Turn("help", "continue", event, <<>>, "", NoCall, d)
        ELSE IF lower(user_input) = status
        THEN LET checked == check_system_status(c, fx, d)
             IN  IF checked.raised \/ fx.sigint \in {"after", "printed"}
                 THEN handle("KeyboardInterrupt", fx, event, <<>>, "", NoCall,
                             checked.db)
                 ELSE Turn("status", "continue", event, <<>>, "", NoCall, checked.db)
        ELSE IF user_input = <<>>
        THEN Turn("empty", "continue", event, <<>>, "", NoCall, d)
        ELSE answered(event, user_input, fx, search_and_answer(user_input, c, fx, d))

(***************************************************************************)
(* ingest.py: process_pdf and its entrypoints                              *)
(***************************************************************************)
\* text_splitter.split_documents(documents): every page is split on its
\* own, the chunks keep the page's metadata.
RECURSIVE split_documents_from(_, _)
split_documents_from(documents, i) ==
    IF i > Len(documents) THEN <<>>
    ELSE LET texts == split_text(documents[i])
         IN  [j \in 1..Len(texts) |-> [page_content |-> texts[j].s, page |-> i - 1]]
             \o split_documents_from(documents, i + 1)

split_documents(documents) == split_documents_from(documents, 1)

\* The `return {...}` of process_pdf.
summary(chunks) == [status |-> "success", chunks_count |-> Len(chunks)]

\* POST /ingest: the summary, or HTTPException(500, detail=str(e)).
ingest_endpoint(result) ==
    IF result.ok THEN [status_code |-> 200, content |-> result.val]
    ELSE [status_code |-> 500, content |-> [detail |-> result.err]]

\* The one-shot CLI: ingest_pdf() catches the exception and returns False;
\* the __main__ block drops the value, so the interpreter exits with 0.
ingest_pdf(result) ==
    [exit_code |-> 0, content |-> result.ok]

(***************************************************************************)
(* The system: one database, the ingestion processes (CLI runs and HTTP    *)
(* requests), the HTTP server and one chat session.                        *)
(***************************************************************************)
VARIABLES
    cfg,        \* the configuration of the environment
    pdf,        \* the file at PDF_PATH: its pages' text, or NoFile
    db,         \* the Vector Store
    server,     \* the HTTP server of ingest.py: "down" or "serving"
    health,     \* the last answer of GET /health
    proc,       \* the ingestion runs: position, chunks and outcome
    chat_pc,    \* the chat: "off", "accepting", "ended", "interrupted", "crashed"
    turn        \* the last turn of the chat loop

svars == <<cfg, pdf, db, server, health, proc, chat_pc, turn>>
vars == <<ctext, cchunks, cpc, fdocs, fcontext, fpc,
          cfg, pdf, db, server, health, proc, chat_pc, turn>>

MaxIngest == 2
Procs == 1..MaxIngest
\* Odd runs are CLI invocations, even runs are POST /ingest requests.
Kind(p) == IF p % 2 = 1 THEN "cli" ELSE "http"

NoFile == "NoFile"
Document == << <<"a", "a", "a", " ", "a", "a", "a">>, <<" ", "\n">>, <<"b">> >>
PdfFiles == {NoFile, Document}

EmptyDb == [collection |-> FALSE, records |-> <<>>]
NoResult == [ok |-> FALSE, val |-> <<>>, err |-> ""]
Idle == [pc |-> "idle", loaded |-> FALSE, chunks |-> <<>>,
         result |-> NoResult, response |-> <<>>]
NoTurn == [kind |-> "none", loop |-> "continue",
           event |-> [type |-> "none", text |-> <<>>], calls |-> <<>>,
           printed |-> "", sa |-> NoCall]

SystemIdle == /\ cfg = CHOOSE c \in Configs : TRUE
              /\ pdf = NoFile
              /\ db = EmptyDb
              /\ server = "down"
              /\ health = <<>>
              /\ proc = [p \in Procs |-> Idle]
              /\ chat_pc = "off"
              /\ turn = NoTurn

Init == /\ cfg \in Configs
        /\ pdf \in PdfFiles
        /\ db = EmptyDb
        /\ server = "down"
        /\ health = <<>>
        /\ proc = [p \in Procs |-> Idle]
        /\ chat_pc = "off"
        /\ turn = NoTurn
        /\ ChunkIdle
        /\ FormatIdle

\* `python src/ingest.py server`: uvicorn.run(app).
ServerStart ==
    /\ server = "down"
    /\ server' = "serving"
    /\ UNCHANGED <<cfg, pdf, db, health, proc, chat_pc, turn, cvars, fvars>>

\* The handlers are `async def` and call blocking code: the server runs one
\* request at a time.
HttpBusy == \E p \in Procs : Kind(p) = "http" /\ proc[p].pc \in {"chunked", "connected"}

CanStep(p) == Kind(p) = "http" => server = "serving"

\* A run ends: process_pdf returned or raised (result), and the entrypoint
\* answers its caller.
Finished(p, loaded, chunks, result) ==
    [pc |-> "done", loaded |-> loaded, chunks |-> chunks,
     result |-> [ok |-> result.ok, val |-> result.val, err |-> result.err],
     response |-> IF Kind(p) = "http" THEN ingest_endpoint(result)
                  ELSE ingest_pdf(result)]

\* process_pdf, lines 80-101: the existence check, loader.load() and
\* split_documents.  load_ok: PyPDFLoader can read the file.
IngestLoad(p) ==
    /\ proc[p].pc = "idle"
    /\ CanStep(p)
    /\ Kind(p) = "http" => ~HttpBusy
    /\ \E load_ok \in BOOLEAN :
          proc' = [proc EXCEPT ![p] =
              IF pdf = NoFile
              THEN Finished(p, FALSE, <<>>, Raise("PDF não encontrado", db))
              ELSE IF ~load_ok
              THEN Finished(p, FALSE, <<>>, Raise("PdfReadError", db))
              ELSE [Idle EXCEPT !.pc = "chunked", !.loaded = TRUE,
                                !.chunks = split_documents(pdf)]]
    /\ UNCHANGED <<cfg, pdf, db, server, health, chat_pc, turn, cvars, fvars>>

\* process_pdf, line 104: get_vector_store().
IngestConnect(p) ==
    /\ proc[p].pc = "chunked"
    /\ \E up1 \in BOOLEAN, up2 \in BOOLEAN :
          LET vector_store == ingest_get_vector_store(cfg, up1, up2, db)
          IN  /\ db' = vector_store.db
              /\ proc' = [proc EXCEPT ![p] =
                    IF vector_store.ok THEN [@ EXCEPT !.pc = "connected"]
                    ELSE Finished(p, TRUE, @.chunks, vector_store)]
    /\ UNCHANGED <<cfg, pdf, server, health, chat_pc, turn, cvars, fvars>>

\* process_pdf, lines 108-115: add_documents(chunks) and the summary.
IngestAdd(p) ==
    /\ proc[p].pc = "connected"
    /\ \E fail \in {"none", "embed", "insert"} :
          LET added == add_documents(proc[p].chunks, fail, db)
          IN  /\ db' = added.db
              /\ proc' = [proc EXCEPT ![p] =
                    Finished(p, TRUE, @.chunks,
                             IF added.ok THEN Return(summary(@.chunks), added.db)
                             ELSE added)]
    /\ UNCHANGED <<cfg, pdf, server, health, chat_pc, turn, cvars, fvars>>

\* GET /health: health_check().
Health ==
    /\ server = "serving"
    /\ ~HttpBusy
    /\ \E up1 \in BOOLEAN, up2 \in BOOLEAN :
          LET vector_store == ingest_get_vector_store(cfg, up1, up2, db)
          IN  /\ db' = vector_store.db
              /\ health' = IF vector_store.ok
                           THEN [status |-> "healthy", database |-> "connected"]
                           ELSE [status |-> "unhealthy", error |-> vector_store.err]
    /\ UNCHANGED <<cfg, pdf, server, proc, chat_pc, turn, cvars, fvars>>

\* What can happen to a call: the failures, each with the interrupts that
\* change what is seen of it.
Failures ==
    {[fail |-> f, answer |-> Refusal] :
        f \in {"connect", "embed", "query", "llm_ctor", "llm_invoke"}}
    \cup {[fail |-> "none", answer |-> a] : a \in Answers}

NoFailure == [fail |-> "none", answer |-> Refusal]

Effect(f, sigint, handler) ==
    [fail |-> f.fail, answer |-> f.answer, sigint |-> sigint, handler |-> handler]

Effects ==
    {Effect(f, "none", FALSE) : f \in Failures}
    \cup {Effect(NoFailure, "none", TRUE)}
    \cup {Effect(f, sigint, h) :
            f \in Failures, sigint \in {"after", "printed"}, h \in BOOLEAN}
    \cup {Effect(f, "searched", h) :
            f \in {g \in Failures : g.fail \in {"connect", "embed", "query"}}
                  \cup {NoFailure},
            h \in BOOLEAN}
    \cup {Effect(NoFailure, sigint, h) :
            sigint \in {"before", "connect", "connected", "llm_built", "invoke"},
            h \in BOOLEAN}

\* The effects of the turns where the chat runs beside the ingestions, and
\* of the turns that check the commands.
FewEffects ==
    {fx \in Effects : /\ ~fx.handler
                      /\ fx.fail \in {"none", "connect"}
                      /\ fx.sigint \in {"none", "before", "invoke", "after",
                                        "printed"}}

\* chat.py main(), lines 49-56: the banner and the startup check, which
\* run outside the loop's try: a KeyboardInterrupt there leaves main().
ChatStart ==
    /\ chat_pc = "off"
    /\ \E f \in {"none", "connect"},
          sigint \in {"none", "connect", "connected", "after"} :
          LET started == check_system_status(cfg,
                             Effect([fail |-> f, answer |-> Refusal], sigint, FALSE), db)
          IN  /\ db' = started.db
              /\ chat_pc' = IF started.raised \/ sigint = "after"
                            THEN "interrupted"
                            ELSE IF started.ok THEN "accepting" ELSE "ended"
    /\ UNCHANGED <<cfg, pdf, server, health, proc, turn, cvars, fvars>>

Line(text) == [type |-> "line", text |-> text]
Eof == [type |-> "eof", text |-> <<>>]
Sigint == [type |-> "sigint", text |-> <<>>]

\* chat.py main(), lines 58-92: one pass of the loop.
ChatTurn(events, effects) ==
    /\ chat_pc = "accepting"
    /\ \E event \in events, fx \in effects :
          \E t \in {loop_body(event, cfg, fx, db)} :
              /\ db' = t.db
              /\ turn' = [f \in DOMAIN t \ {"db"} |-> t[f]]
              /\ chat_pc' = CASE t.loop = "continue" -> "accepting"
                              [] t.loop = "break" -> "ended"
                              [] t.loop = "raise" -> "interrupted"
                              [] OTHER -> "crashed"
    /\ UNCHANGED <<cfg, pdf, server, health, proc, cvars, fvars>>

Question == <<"o", "i", "?">>
FewEvents ==
    { Line(<<" ", "S", "A", "I", "R", " ">>), Line(<<"H", "e", "l", "p">>),
      Line(<<"s", "t", "a", "t", "u", "s", " ">>), Line(<<" ", " ">>),
      Line(<<" ">> \o Question), Eof, Sigint }

Next ==
    \/ ServerStart
    \/ \E p \in Procs : IngestLoad(p)
    \/ \E p \in Procs : IngestConnect(p)
    \/ \E p \in Procs : IngestAdd(p)
    \/ Health
    \/ ChatStart
    \/ ChatTurn(FewEvents, FewEffects)

Spec == Init /\ [][Next]_vars

(***************************************************************************)
(* The chat session alone, over a wider set of input lines: the control    *)
(* words and other texts, in lower case, upper case and capitalised, with  *)
(* and without whitespace around them.  The store is empty or holds one    *)
(* ingestion of Document.                                                  *)
(***************************************************************************)
upper(s) ==
    [i \in 1..Len(s) |->
        IF \E j \in 1..Len(LowerCase) : LowerCase[j] = s[i]
        THEN UpperCase[CHOOSE j \in 1..Len(LowerCase) : LowerCase[j] = s[i]]
        ELSE s[i]]

capitalize(s) == IF s = <<>> THEN s ELSE upper(<< s[1] >>) \o Tail(s)

Words == { sair, quit, exit, help, status, <<>>, Question,
           <<"s", "a", "i", "r", "s">>, <<"e", "x", " ", "i", "t">> }

ManyEvents ==
    { Line(l \o w \o r) :
        l \in { <<>>, <<" ">> },
        w \in UNION { {x, upper(x), capitalize(x)} : x \in Words },
        r \in { <<>>, <<" ">>, <<"\t", "\r">> } }
    \cup {Eof, Sigint}

StoredOnce == [collection |-> TRUE, records |-> split_documents(Document)]

ChatInit == /\ cfg \in Configs
            /\ pdf = Document
            /\ db \in {EmptyDb, StoredOnce}
            /\ server = "down"
            /\ health = <<>>
            /\ proc = [p \in Procs |-> Idle]
            /\ chat_pc = "off"
            /\ turn = NoTurn
            /\ ChunkIdle
            /\ FormatIdle

ChatNext == ChatStart \/ ChatTurn(ManyEvents, FewEffects)

SpecChat == ChatInit /\ [][ChatNext]_vars

(***************************************************************************)
(* The chat session alone, over every effect: each failure of a call and   *)
(* each place where the user's Ctrl+C can arrive.                          *)
(***************************************************************************)
SessionNext == ChatStart \/ ChatTurn(FewEvents, Effects)

SpecSession == ChatInit /\ [][SessionNext]_vars

(***************************************************************************)
(* The claims about the system.                                            *)
(***************************************************************************)
CredentialOk ==
    \/ cfg.LLM_PROVIDER = "openai" /\ cfg.OPENAI_API_KEY
    \/ cfg.LLM_PROVIDER = "google" /\ cfg.GOOGLE_API_KEY

\* C1: when the search of a search_and_answer call yields no result (the
\* store holds none, or the search failed and degraded to the empty list),
\* the language model is neither constructed nor invoked in that call, and
\* what the call returns is the refusal sentence; the only other way out
\* of it is the user's Ctrl+C before the return statement is reached.
C1_RefusalWithoutModel ==
    (turn.sa.searched /\ turn.sa.documents = <<>>) =>
        /\ ~turn.sa.llm_built
        /\ ~turn.sa.llm_invoked
        /\ \/ turn.sa.kind = "return" /\ turn.sa.value = Refusal
           \/ /\ turn.sa.kind = "raise"
              /\ turn.sa.value = "KeyboardInterrupt"
              /\ turn.kind = "interrupt"

\* The search failed although the credential is set and the store holds
\* records, and the turn printed the refusal.
C1_Witness ==
    /\ turn.sa.searched
    /\ turn.sa.documents = <<>>
    /\ CredentialOk
    /\ Len(db.records) > 0
    /\ turn.printed = Refusal

\* C2: search_and_answer raises no failure to its caller: only the user's
\* interrupt leaves it as an exception; otherwise it returns the model's
\* answer (the model was invoked), the refusal sentence or the fallback.
C2_NeverRaises ==
    turn.sa.kind # "none" =>
        IF turn.sa.kind = "raise" THEN turn.sa.value = "KeyboardInterrupt"
        ELSE /\ turn.sa.kind = "return"
             /\ turn.sa.value \in Answers \cup {Refusal, Fallback}
             /\ turn.sa.value \notin {Refusal, Fallback} => turn.sa.llm_invoked

\* The model was invoked, the invocation failed and the call returned the
\* fallback string.
C2_Witness ==
    /\ turn.sa.kind = "return"
    /\ turn.sa.llm_invoked
    /\ turn.sa.value = Fallback
    /\ turn.printed = Fallback

\* The letters that differ in case only.
CasePairs ==
    {<<UpperCase[j], LowerCase[j]>> : j \in 1..Len(UpperCase)}
    \cup {<<LowerCase[j], UpperCase[j]>> : j \in 1..Len(UpperCase)}

\* Equality of two texts up to the case of their letters.
SameIgnoringCase(a, b) ==
    /\ Len(a) = Len(b)
    /\ \A i \in 1..Len(a) : a[i] = b[i] \/ <<a[i], b[i]>> \in CasePairs

\* The part of a line between its leading and trailing whitespace: the
\* line cut after a prefix and before a suffix of whitespace, so that what
\* is left neither starts nor ends with whitespace.
Trimmed(x) ==
    LET cuts == {c \in (1..(Len(x) + 1)) \X (0..Len(x)) :
                    /\ c[2] >= c[1] - 1
                    /\ \A m \in 1..(c[1] - 1) : x[m] \in Whitespace
                    /\ \A m \in (c[2] + 1)..Len(x) : x[m] \in Whitespace
                    /\ c[2] >= c[1] =>
                          x[c[1]] \notin Whitespace /\ x[c[2]] \notin Whitespace}
        cut == CHOOSE c \in cuts : TRUE
    IN  SubSeq(x, cut[1], cut[2])

IsExitWord(t) == \E w \in {sair, quit, exit} : SameIgnoringCase(t, w)

\* C3: the loop leaves its accepting state only on an exit command or a
\* KeyboardInterrupt; after any other turn (answer, refusal, fallback, an
\* exception raised in the turn) it is accepting again.
C3_LoopSurvives ==
    [][(chat_pc = "accepting" /\ chat_pc' # "accepting") =>
          \/ turn'.kind = "interrupt"
          \/ /\ turn'.kind = "exit"
             /\ turn'.event.type = "line"
             /\ IsExitWord(Trimmed(turn'.event.text))]_vars

\* A turn raised an exception (input() raised EOFError) and the loop is
\* accepting input again.
C3_Witness ==
    /\ chat_pc = "accepting"
    /\ turn.kind = "error"

\* C4 as stated: a failed ingestion answers 500 with the error as detail
\* over HTTP and exits non-zero from the CLI; the success summary is
\* returned only when every step succeeded.
C4_FailuresPropagate ==
    \A p \in Procs :
        proc[p].pc = "done" =>
            IF proc[p].result.ok
            THEN /\ proc[p].loaded
                 /\ proc[p].result.val = summary(proc[p].chunks)
                 /\ Kind(p) = "http" => proc[p].response.status_code = 200
                 /\ Kind(p) = "cli" => proc[p].response.exit_code = 0
            ELSE /\ Kind(p) = "http" =>
                        /\ proc[p].response.status_code = 500
                        /\ proc[p].response.content = [detail |-> proc[p].result.err]
                 /\ Kind(p) = "cli" => proc[p].response.exit_code # 0

\* C5 as stated: with the credential of the selected provider absent (or
\* the provider unsupported) the chat never accepts a question, no
\* ingestion loads or chunks the PDF, and the server answers no request.
C5_FailFast ==
    ~CredentialOk =>
        /\ chat_pc # "accepting"
        /\ turn.kind = "none"
        /\ \A p \in Procs : ~proc[p].loaded
        /\ health = <<>>

\* C6 as stated: a health check (GET /health, the startup check of the
\* chat, its `status` command) leaves the Vector Store as it was.
C6_HealthReadOnly ==
    [][(\/ Health
        \/ ChatStart
        \/ (ChatTurn(FewEvents, FewEffects) /\ turn'.kind = "status")) => db' = db]_vars

\* The ingestions that succeeded.
Succeeded == {p \in Procs : proc[p].pc = "done" /\ proc[p].result.ok}

\* C7: the records of the collection never shrink, whatever runs (a step of
\* an ingestion, a chat turn, a health check), and after n successful
\* ingestions of the document, which yields c chunks, the store holds the
\* c chunks n times over: n*c records.
C7_AppendOnly ==
    /\ [](LET chunks == IF pdf = NoFile THEN <<>> ELSE split_documents(pdf)
              c == Len(chunks)
          IN  /\ Len(db.records) = Cardinality(Succeeded) * c
              /\ \A i \in 1..Len(db.records) :
                    db.records[i] = chunks[((i - 1) % c) + 1])
    /\ [][/\ Len(db.records') >= Len(db.records)
          /\ SubSeq(db.records', 1, Len(db.records)) = db.records]_vars

\* Every ingestion run succeeded, each adding the same chunks again.
C7_Witness ==
    /\ Cardinality(Succeeded) = MaxIngest
    /\ MaxIngest >= 2
    /\ Len(split_documents(pdf)) >= 2
    /\ Len(db.records) = MaxIngest * Len(split_documents(pdf))

\* The control words, whatever their case.
IsCommand(t) ==
    IsExitWord(t) \/ SameIgnoringCase(t, help) \/ SameIgnoringCase(t, status)
        \/ t = <<>>

\* What C9 says of the turn that read a line whose trimmed text is t.
CommandsAsStated(t) ==
    IF IsExitWord(t)
    THEN turn.kind = "exit" /\ chat_pc = "ended" /\ turn.calls = <<>>
    ELSE IF SameIgnoringCase(t, help)
    THEN turn.kind = "help" /\ chat_pc = "accepting" /\ turn.calls = <<>>
    ELSE IF SameIgnoringCase(t, status)
    THEN turn.kind = "status" /\ chat_pc = "accepting" /\ turn.calls = <<>>
    ELSE IF t = <<>>
    THEN turn.kind = "empty" /\ chat_pc = "accepting" /\ turn.calls = <<>>
    ELSE /\ turn.kind = "answer"
         /\ chat_pc = "accepting"
         /\ turn.calls = << t >>
         /\ turn.sa.kind = "return"
         /\ turn.printed = turn.sa.value

\* What holds of a turn the user cut short with Ctrl+C: the chat is over;
\* a control word made no call and printed no response; any other line
\* made no call or the one call with the trimmed text, and printed nothing
\* or, the call having returned, exactly what it returned.
CommandsInterrupted(t) ==
    /\ chat_pc \in {"ended", "interrupted"}
    /\ IF IsCommand(t)
       THEN turn.calls = <<>> /\ turn.sa.kind = "none" /\ turn.printed = ""
       ELSE /\ turn.calls \in {<<>>, << t >>}
            /\ turn.calls = <<>> <=> turn.sa.kind = "none"
            /\ turn.printed # "" =>
                  turn.sa.kind = "return" /\ turn.printed = turn.sa.value

\* C9 as stated: the line is trimmed and compared with the control words
\* whatever its case: sair/quit/exit end the loop, help, status and the
\* empty line go on, none of them calling search_and_answer; any other
\* line calls it once with the trimmed text and its result is printed.
C9_CommandsAsStated ==
    turn.event.type = "line" => CommandsAsStated(Trimmed(turn.event.text))

\* C9, amended: every turn the user does not interrupt with Ctrl+C does
\* what C9 states; an interrupted turn ends the chat, a control word
\* having made no call, any other line at most the one call with the
\* trimmed text, with nothing printed but that call's result.
C9_Commands ==
    turn.event.type = "line" =>
        IF turn.kind = "interrupt"
        THEN CommandsInterrupted(Trimmed(turn.event.text))
        ELSE CommandsAsStated(Trimmed(turn.event.text))

\* An exit word typed in capitals between blanks ended the loop, without
\* an interrupt.
C9_Witness ==
    /\ turn.kind = "exit"
    /\ turn.event.text = <<" ">> \o upper(sair) \o <<" ">>
    /\ chat_pc = "ended"

(***************************************************************************)
(* The Chunker applied to every page text of bounded length.               *)
(***************************************************************************)
TextChars == {"a", " ", "\n"}
Texts == UNION {[1..n -> TextChars] : n \in 0..MaxTextLen}

ChunkInit == /\ ctext \in Texts
             /\ cchunks = <<>>
             /\ cpc = "input"
             /\ FormatIdle
             /\ SystemIdle

Chunk == /\ cpc = "input"
         /\ cchunks' = split_text(ctext)
         /\ cpc' = "done"
         /\ UNCHANGED <<ctext, fvars, svars>>

SpecChunk == ChunkInit /\ [][Chunk]_vars

\* The units two consecutive chunks of a page share: the part of the page
\* text that lies in both.
shared(c1, c2) ==
    LET e == c1.o + Len(c1.s) IN IF e > c2.o THEN e - c2.o ELSE 0

\* C8 as stated: every chunk is at most chunk_size long and every two
\* consecutive chunks of a page share exactly chunk_overlap units.
C8_ExactOverlap ==
    cpc = "done" =>
        /\ \A i \in 1..Len(cchunks) : Len(cchunks[i].s) <= chunk_size
        /\ \A i \in 1..(Len(cchunks) - 1) :
               shared(cchunks[i], cchunks[i + 1]) = chunk_overlap

\* C8 amended: every chunk is at most chunk_size long and every two
\* consecutive chunks of a page share at most chunk_overlap units.
C8_BoundedOverlap ==
    cpc = "done" =>
        /\ \A i \in 1..Len(cchunks) : Len(cchunks[i].s) <= chunk_size
        /\ \A i \in 1..(Len(cchunks) - 1) :
               shared(cchunks[i], cchunks[i + 1]) <= chunk_overlap

\* A page cut into several chunks, one pair of them sharing some text but
\* less than chunk_overlap units of it.
C8_Witness ==
    /\ cpc = "done"
    /\ Len(cchunks) >= 2
    /\ \E i \in 1..(Len(cchunks) - 1) :
           /\ shared(cchunks[i], cchunks[i + 1]) > 0
           /\ shared(cchunks[i], cchunks[i + 1]) < chunk_overlap

(***************************************************************************)
(* format_context applied to every result sequence of bounded length.  The *)
(* chunk texts include the empty text, the sentinel itself and a text that *)
(* holds a blank line and a block marker.                                  *)
(***************************************************************************)
MaxDocs == 10

PageContents == { <<>>, NoContext, <<"a", "\n", "\n", "[", "2", "]", " ", "b">> }

\* A retrieval result: documents with their distances, nearest first.
ResultSeqs ==
    UNION {[1..n -> {<<[page_content |-> c], 0>> : c \in PageContents}]
             : n \in 0..MaxDocs}

FormatInit == /\ fdocs \in ResultSeqs
              /\ fcontext = <<>>
              /\ fpc = "input"
              /\ ChunkIdle
              /\ SystemIdle

Format == /\ fpc = "input"
          /\ fcontext' = format_context(fdocs)
          /\ fpc' = "done"
          /\ UNCHANGED <<fdocs, cvars, svars>>

SpecFormat == FormatInit /\ [][Format]_vars

\* The block expected for the i-th result, "[i] <chunk text>", written out
\* for the one- and two-digit numbers.
ExpectedBlock(i) ==
    <<"[">>
    \o (IF i < 10 THEN << Digits[i + 1] >>
        ELSE << Digits[(i \div 10) + 1], Digits[(i % 10) + 1] >>)
    \o <<"]", " ">> \o fdocs[i][1].page_content

\* Where the i-th block starts in the context: after the blocks before it
\* and the blank line that follows each of them.
RECURSIVE BlockStart(_)
BlockStart(i) ==
    IF i = 1 THEN 1 ELSE BlockStart(i - 1) + Len(ExpectedBlock(i - 1)) + 2

\* C10: format_context of n >= 1 results is the n blocks "[i] <chunk text>",
\* i = 1..n in input order, joined by a blank line and nothing else; of no
\* result it is the sentinel, which no non-empty input produces.
C10_FormatContext ==
    fpc = "done" =>
        LET n == Len(fdocs) IN
        IF n = 0 THEN fcontext = NoContext
        ELSE /\ fcontext # NoContext
             /\ Len(fcontext) = BlockStart(n) + Len(ExpectedBlock(n)) - 1
             /\ \A i \in 1..n :
                   SubSeq(fcontext, BlockStart(i),
                          BlockStart(i) + Len(ExpectedBlock(i)) - 1) = ExpectedBlock(i)
             /\ \A i \in 1..(n - 1) :
                   SubSeq(fcontext, BlockStart(i + 1) - 2, BlockStart(i + 1) - 1)
                       = <<"\n", "\n">>

\* Ten results formatted, the first of them a chunk whose text is the
\* sentinel sentence.
C10_Witness ==
    /\ fpc = "done"
    /\ Len(fdocs) = 10
    /\ fdocs[1][1].page_content = NoContext
    /\ fdocs[2][1].page_content # fdocs[3][1].page_content

====
